---- MODULE Spec2Model ----
(***************************************************************************)
(* Model of three components of the Ubuntu UI toolkit plugin:              *)
(*   - UCArguments      (ucarguments.cpp): command line argument parser    *)
(*   - UCBottomEdgeRange (ucbottomedgerange.cpp): bottom edge drag section *)
(*   - UCItemExtension / UCThemeUpdateEvent (ucitemextension.cpp): theme   *)
(*     change broadcast down the visual tree                               *)
(* The three components are independent; each has its own specification    *)
(* (SpecArgs, SpecRange, SpecTheme) that leaves the other components'      *)
(* variables untouched.                                                    *)
(***************************************************************************)
EXTENDS Integers, Sequences, FiniteSets, TLC

VARIABLES
    \* ---- UCArguments
    m_rawArguments,      \* QStringList: the process command line
    m_arguments,         \* QList<UCArgument*>: the declared arguments
    m_expectedArguments, \* QHash<QString, QStringList>
    m_argumentsValues,   \* QHash<QString, QStringList>
    exitCode,            \* code given to QCoreApplication::exit, or NoExit
    warnings,            \* lines written through qWarning()
    argsOp,              \* the operation that parsed the command line last
    \* ---- UCBottomEdgeRange and the BottomEdges it may be attached to
    m_bottomEdge, m_url, m_component, m_urlBackup, m_componentBackup,
    m_from, m_to, m_enabled, m_commitToTop,
    urlBinding,          \* whether the range's content property has a binding
    componentBinding,    \* whether its contentComponent property has one
    edgeContent,         \* BottomEdge::content of every BottomEdge
    edgeContentComponent,\* BottomEdge::contentComponent of every BottomEdge
    commitPoint,         \* BottomEdge::commitPoint of every BottomEdge
    rangeOp,             \* the last UCBottomEdgeRange operation and its effects
    \* ---- visual tree and theme broadcast
    parentItem,          \* QQuickItem::parentItem of every item
    childItems,          \* QQuickItemPrivate::childItems of every item
    stack,               \* call stack of the running broadcast
    broadcast,           \* the running (or last) broadcast call
    delivered,           \* events delivered by it, in delivery order
    posted               \* events queued by postEvent and not delivered yet

argsVars == <<m_rawArguments, m_arguments, m_expectedArguments,
              m_argumentsValues, exitCode, warnings, argsOp>>
rangeVars == <<m_bottomEdge, m_url, m_component, m_urlBackup,
               m_componentBackup, m_from, m_to, m_enabled, m_commitToTop,
               urlBinding, componentBinding, edgeContent,
               edgeContentComponent, commitPoint, rangeOp>>
themeVars == <<parentItem, childItems, stack, broadcast, delivered, posted>>
vars == <<argsVars, rangeVars, themeVars>>

NULL == "NULL"

(***************************************************************************)
(* QString / QStringList helpers.  A QString is a sequence of characters.  *)
(***************************************************************************)

\* QString::startsWith(QChar)
startsWith(s, c) == Len(s) > 0 /\ s[1] = c

\* QString::split(sep, QString::KeepEmptyParts)
split(s, sep) ==
    LET RECURSIVE go(_, _, _)
        go(i, cur, acc) ==
            IF i > Len(s) THEN Append(acc, cur)
            ELSE IF s[i] = sep THEN go(i + 1, <<>>, Append(acc, cur))
            ELSE go(i + 1, Append(cur, s[i]), acc)
    IN go(1, <<>>, <<>>)

\* QString::split(sep, QString::SkipEmptyParts)
splitSkipEmptyParts(s, sep) == SelectSeq(split(s, sep), LAMBDA p : p # <<>>)

\* QStringList::join(QChar)
join(list, sep) ==
    LET RECURSIVE go(_)
        go(i) ==
            IF i > Len(list) THEN <<>>
            ELSE IF i = Len(list) THEN list[i]
            ELSE list[i] \o <<sep>> \o go(i + 1)
    IN go(1)

(***************************************************************************)
(* QHash<QString, QStringList> as a function from its keys.                *)
(***************************************************************************)
EmptyHash == [k \in {} |-> <<>>]

contains(h, k) == k \in DOMAIN h

\* QHash::insert: adds the key or replaces its value
insert(h, k, v) == [x \in DOMAIN h \cup {k} |-> IF x = k THEN v ELSE h[x]]

\* QHash::operator[] on a non-const hash: a missing key is inserted with a
\* default-constructed (empty) value
subscript(h, k) == IF k \in DOMAIN h THEN h ELSE insert(h, k, <<>>)

(***************************************************************************)
(* UCArguments                                                             *)
(***************************************************************************)
MaxRawArguments == 3   \* tokens after the binary name
MaxArguments == 1      \* declared arguments
MaxQuits == 1          \* calls of quitAndPrintUsage

\* the error messages quitAndPrintUsage is called with
ErrorMessages == {"bad argument", ""}

BinaryName == <<"b", "i", "n">>

\* the raw tokens the command line is made of
Tokens ==
    { <<"-", "a">>,
      <<"-", "-", "a", "=", "x">>,
      <<"-", "a", "=", "x", "=", "y">>,
      <<"-", "b">>,
      <<"-", "a", "-", "-", "b", "-">>,
      <<"-", "-">>,
      <<"x">>,
      <<"y">> }

RawArgumentLists ==
    UNION { [1..n -> Tokens] : n \in 0..MaxRawArguments }

\* the UCArgument objects a document may declare: name() and valueNames()
DeclaredArguments ==
    { [name |-> <<"a">>, valueNames |-> <<"v1">>],
      [name |-> <<"a">>, valueNames |-> <<"v1", "v2">>],
      [name |-> <<"b">>, valueNames |-> <<>>] }

NoExit == "NoExit"

buildExpectedArguments(declaredArguments) ==
    LET RECURSIVE go(_, _)
        go(i, expectedArguments) ==
            IF i > Len(declaredArguments) THEN expectedArguments
            ELSE go(i + 1, insert(expectedArguments,
                                  declaredArguments[i].name,
                                  declaredArguments[i].valueNames))
    IN go(1, EmptyHash)

\* The locals of parseRawArguments before the loop.  expectedArguments is the
\* function's by-value parameter, which operator[] may extend.
ParseStart(expectedArguments) ==
    [argumentsValues |-> EmptyHash, name |-> <<>>, values |-> <<>>,
     expectedArguments |-> expectedArguments]

\* "remove all prepended '-'", then split at every '='
NamedParts(rawArgument) ==
    split(join(splitSkipEmptyParts(rawArgument, "-"), "-"), "=")

\* name = values.takeAt(0)
ArgumentName(rawArgument) == Head(NamedParts(rawArgument))

\* a token that starts with '-': lines 142-151
ParseNamed(st, rawArgument) ==
    LET flushed == IF st.name # <<>>
                   THEN insert(st.argumentsValues, st.name, st.values)
                   ELSE st.argumentsValues
    IN [st EXCEPT !.argumentsValues = flushed,
                  !.name = ArgumentName(rawArgument),
                  !.values = Tail(NamedParts(rawArgument))]

\* the positional branch taking a value while the argument holds as many
\* values as it declares
ParsePositional_OneMore(st, rawArgument) ==
    IF ~contains(st.expectedArguments, st.name) /\ st.values = <<>>
    THEN [st EXCEPT !.values = Append(st.values, rawArgument)]
    ELSE LET expected == subscript(st.expectedArguments, st.name)
         IN IF Len(st.values) <= Len(expected[st.name])
            THEN [st EXCEPT !.expectedArguments = expected,
                            !.values = Append(st.values, rawArgument)]
            ELSE LET flushed == IF st.name # <<>>
                                THEN insert(st.argumentsValues, st.name, st.values)
                                ELSE st.argumentsValues
                     withDefault == subscript(flushed, <<>>)
                 IN [st EXCEPT !.expectedArguments = expected,
                               !.argumentsValues =
                                   insert(withDefault, <<>>,
                                          Append(withDefault[<<>>], rawArgument))]

\* any other token: lines 153-166
ParsePositional(st, rawArgument) ==
    IF ~contains(st.expectedArguments, st.name) /\ st.values = <<>>
    THEN [st EXCEPT !.values = Append(st.values, rawArgument)]
    ELSE LET expected == subscript(st.expectedArguments, st.name)
         IN IF Len(st.values) < Len(expected[st.name])
            THEN [st EXCEPT !.expectedArguments = expected,
                            !.values = Append(st.values, rawArgument)]
            ELSE LET flushed == IF st.name # <<>>
                                THEN insert(st.argumentsValues, st.name, st.values)
                                ELSE st.argumentsValues
                     withDefault == subscript(flushed, <<>>)
                 IN [st EXCEPT !.expectedArguments = expected,
                               !.argumentsValues =
                                   insert(withDefault, <<>>,
                                          Append(withDefault[<<>>], rawArgument))]

\* one iteration of the loop of parseRawArguments
ParseStep(st, rawArgument) ==
    IF startsWith(rawArgument, "-")
    THEN ParseNamed(st, rawArgument)
    ELSE ParsePositional(st, rawArgument)

\* the locals of parseRawArguments after the tokens 2..upto have been handled
ParseUpTo(rawArguments, expectedArguments, upto) ==
    LET RECURSIVE go(_, _)
        go(i, st) ==
            IF i > upto \/ i > Len(rawArguments) THEN st
            ELSE go(i + 1, ParseStep(st, rawArguments[i]))
    IN go(2, ParseStart(expectedArguments))

parseRawArguments(rawArguments, expectedArguments) ==
    ParseUpTo(rawArguments, expectedArguments, Len(rawArguments)).argumentsValues

\* the text quitAndPrintUsage builds in usageStream
usageText(rawArguments) ==
    <<"Usage: ", rawArguments[1], "endl", "Options:", "endl">>

\* quitAndPrintUsage: two qWarning() lines, the error message and the usage
\* text, and QCoreApplication::exit(-1).  No function of the file calls it;
\* it is there for a caller outside.  It parses nothing, so argsOp stays.
quitAndPrintUsage(errorMessage) ==
    /\ Len(warnings) < 2 * MaxQuits
    /\ warnings' = warnings \o <<errorMessage, usageText(m_rawArguments)>>
    /\ exitCode' = -1
    /\ UNCHANGED <<m_rawArguments, m_arguments, m_expectedArguments,
                   m_argumentsValues, argsOp>>

\* UCArguments::UCArguments: the command line of a process always starts
\* with the name of its binary, which the parser skips
InitArgs ==
    /\ m_rawArguments \in { <<BinaryName>> \o r : r \in RawArgumentLists }
    /\ m_arguments = <<>>
    /\ m_expectedArguments = EmptyHash
    /\ m_argumentsValues = EmptyHash
    /\ exitCode = NoExit
    /\ warnings = <<>>
    /\ argsOp = "constructed"

appendArguments(argument) ==
    /\ Len(m_arguments) < MaxArguments
    /\ m_arguments' = Append(m_arguments, argument)
    /\ m_expectedArguments' = buildExpectedArguments(m_arguments')
    /\ m_argumentsValues' = parseRawArguments(m_rawArguments, m_expectedArguments')
    /\ argsOp' = "appendArguments"
    /\ UNCHANGED <<m_rawArguments, exitCode, warnings>>

clearArguments ==
    /\ m_arguments' = <<>>
    /\ m_expectedArguments' = EmptyHash
    /\ m_argumentsValues' = parseRawArguments(m_rawArguments, m_expectedArguments')
    /\ argsOp' = "clearArguments"
    /\ UNCHANGED <<m_rawArguments, exitCode, warnings>>

NextArgs ==
    \/ \E argument \in DeclaredArguments : appendArguments(argument)
       /\ UNCHANGED <<rangeVars, themeVars>>
    \/ clearArguments
       /\ UNCHANGED <<rangeVars, themeVars>>
    \/ \E errorMessage \in ErrorMessages : quitAndPrintUsage(errorMessage)
       /\ UNCHANGED <<rangeVars, themeVars>>

(***************************************************************************)
(* Properties of UCArguments                                               *)
(***************************************************************************)

\* the positions of the named arguments of a command line
NamedIndexes(rawArguments) ==
    { i \in 2..Len(rawArguments) : startsWith(rawArguments[i], "-") }

\* the position after the last token of the occurrence that starts at i
OccurrenceEnd(rawArguments, i) ==
    LET later == { j \in NamedIndexes(rawArguments) : j > i }
    IN IF later = {} THEN Len(rawArguments) + 1
       ELSE CHOOSE j \in later : \A k \in later : j <= k

\* the values the parser holds for the occurrence at i when the occurrence ends
OccurrenceValues(rawArguments, expectedArguments, i) ==
    ParseUpTo(rawArguments, expectedArguments,
              OccurrenceEnd(rawArguments, i) - 1).values

\* whether the occurrence at i is the last one of its name
LastOccurrence(rawArguments, i) ==
    \A j \in NamedIndexes(rawArguments) :
        j > i => ArgumentName(rawArguments[j]) # ArgumentName(rawArguments[i])

\* C2: after appendArguments or clearArguments has parsed the command line,
\* every token after the binary name that starts with '-' (and has a name
\* left once its dashes are removed) has an entry in m_argumentsValues under
\* its name, and the entry of the last occurrence of a name holds that
\* occurrence's values; this includes the last named argument.
C2_EveryNamedArgumentStored ==
    argsOp # "constructed" =>
        \A i \in NamedIndexes(m_rawArguments) :
            LET name == ArgumentName(m_rawArguments[i])
            IN name # <<>> =>
                   /\ contains(m_argumentsValues, name)
                   /\ LastOccurrence(m_rawArguments, i) =>
                          m_argumentsValues[name] =
                              OccurrenceValues(m_rawArguments,
                                               m_expectedArguments, i)

\* C3: last writer wins: a name that occurs more than once among the raw
\* tokens is stored with the values of its last occurrence.
C3_LastWriterWins ==
    argsOp # "constructed" =>
        \A i, j \in NamedIndexes(m_rawArguments) :
            LET name == ArgumentName(m_rawArguments[j])
            IN (/\ i < j
                /\ name # <<>>
                /\ ArgumentName(m_rawArguments[i]) = name
                /\ LastOccurrence(m_rawArguments, j))
               => /\ contains(m_argumentsValues, name)
                  /\ m_argumentsValues[name] =
                         OccurrenceValues(m_rawArguments, m_expectedArguments, j)

\* the positional tokens, in command line order, that the parser does not take
\* as a value of a named argument
UnnamedTokens(rawArguments, expectedArguments) ==
    LET RECURSIVE go(_)
        go(i) ==
            IF i > Len(rawArguments) THEN <<>>
            ELSE LET before == ParseUpTo(rawArguments, expectedArguments, i - 1)
                     after == ParseStep(before, rawArguments[i])
                     taken == /\ before.name # <<>>
                              /\ after.values # before.values
                 IN IF startsWith(rawArguments[i], "-") \/ taken
                    THEN go(i + 1)
                    ELSE <<rawArguments[i]>> \o go(i + 1)
    IN go(2)

\* C4: every positional token that is not a value of a named argument is in
\* the value list of the default argument (key ""), in command line order;
\* none is dropped, also not one that comes before any named argument.
C4_PositionalsKept ==
    argsOp # "constructed" =>
        LET unnamed == UnnamedTokens(m_rawArguments, m_expectedArguments)
        IN IF contains(m_argumentsValues, <<>>)
           THEN m_argumentsValues[<<>>] = unnamed
           ELSE unnamed = <<>>

\* a command line that gives an expected named argument fewer values than the
\* argument declares value names
Malformed(rawArguments, expectedArguments) ==
    \E i \in NamedIndexes(rawArguments) :
        LET name == ArgumentName(rawArguments[i])
        IN /\ contains(expectedArguments, name)
           /\ Len(OccurrenceValues(rawArguments, expectedArguments, i))
                  < Len(expectedArguments[name])

\* C9: parsing a malformed command line through appendArguments or
\* clearArguments leads to quitAndPrintUsage: the usage text is printed and
\* the application is asked to exit with code -1.
C9_MalformedQuits ==
    (argsOp # "constructed" /\ Malformed(m_rawArguments, m_expectedArguments))
    => /\ Len(warnings) >= 2
       /\ warnings[Len(warnings)] = usageText(m_rawArguments)
       /\ exitCode = -1

\* C12: unexpected named arguments are given at most one value:
\* every name of the parsed table that is not a declared argument name maps
\* to a value list of length 0 or 1.
C12_UnexpectedAtMostOneValue ==
    argsOp # "constructed" =>
        \A name \in DOMAIN m_argumentsValues :
            (name # <<>> /\ ~contains(m_expectedArguments, name))
            => Len(m_argumentsValues[name]) <= 1

\* the positional tokens between the named argument at i and the next one
FollowingPositionals(rawArguments, i) ==
    SubSeq(rawArguments, i + 1, OccurrenceEnd(rawArguments, i) - 1)

\* the values of the default argument in the parser's table
DefaultValues(st) ==
    IF contains(st.argumentsValues, <<>>) THEN st.argumentsValues[<<>>]
    ELSE <<>>

\* C13: an occurrence of an expected argument that declares n value names
\* takes the positional tokens that follow it while it holds fewer than n
\* values; from then on every positional token up to the next named argument
\* is appended to the default argument (key "") and the argument is stored
\* with the values it held, without any of those tokens.
C13_ExpectedTakesDeclaredValues ==
    argsOp # "constructed" =>
        \A i \in NamedIndexes(m_rawArguments) :
            LET name == ArgumentName(m_rawArguments[i])
            IN contains(m_expectedArguments, name) =>
                LET n == Len(m_expectedArguments[name])
                    given == Tail(NamedParts(m_rawArguments[i]))
                    following == FollowingPositionals(m_rawArguments, i)
                    room == IF n > Len(given) THEN n - Len(given) ELSE 0
                    taken == IF room < Len(following) THEN room
                             ELSE Len(following)
                    start == ParseUpTo(m_rawArguments, m_expectedArguments, i)
                    end == ParseUpTo(m_rawArguments, m_expectedArguments,
                                     OccurrenceEnd(m_rawArguments, i) - 1)
                IN /\ end.values = given \o SubSeq(following, 1, taken)
                   /\ DefaultValues(end) =
                          DefaultValues(start)
                              \o SubSeq(following, taken + 1, Len(following))
                   /\ taken < Len(following) =>
                          /\ contains(end.argumentsValues, name)
                          /\ end.argumentsValues[name] = end.values

\* an argument declared with one value name is followed by two positional
\* tokens: it is stored with the first, the second is the default argument's
C13_Witness ==
    /\ argsOp # "constructed"
    /\ \E i \in NamedIndexes(m_rawArguments) :
           LET name == ArgumentName(m_rawArguments[i])
           IN /\ contains(m_expectedArguments, name)
              /\ Len(m_expectedArguments[name]) = 1
              /\ Tail(NamedParts(m_rawArguments[i])) = <<>>
              /\ Len(FollowingPositionals(m_rawArguments, i)) = 2
              /\ i + 2 = Len(m_rawArguments)
              /\ contains(m_argumentsValues, name)
              /\ m_argumentsValues[name] = <<m_rawArguments[i + 1]>>
              /\ contains(m_argumentsValues, <<>>)
              /\ m_argumentsValues[<<>>] = <<m_rawArguments[i + 2]>>

\* a token without the '-' characters it starts with
RECURSIVE WithoutLeadingDashes(_)
WithoutLeadingDashes(rawArgument) ==
    IF startsWith(rawArgument, "-")
    THEN WithoutLeadingDashes(Tail(rawArgument))
    ELSE rawArgument

\* C16: the name of a named argument is its token without the leading '-'
\* characters, cut at the first '='; what follows the leading dashes is kept
\* as it is, interior and trailing '-' included, and the other '='-separated
\* parts are its initial values.  The parser holds that name and those values
\* after the token, and stores the argument under that name when a later
\* named argument follows.
C16_NameKeepsInnerDashes ==
    argsOp # "constructed" =>
        \A i \in NamedIndexes(m_rawArguments) :
            LET parts == split(WithoutLeadingDashes(m_rawArguments[i]), "=")
                after == ParseUpTo(m_rawArguments, m_expectedArguments, i)
            IN /\ after.name = Head(parts)
               /\ after.values = Tail(parts)
               /\ (/\ Head(parts) # <<>>
                   /\ OccurrenceEnd(m_rawArguments, i) <= Len(m_rawArguments))
                  => contains(m_argumentsValues, Head(parts))

(***************************************************************************)
(* UCBottomEdgeRange                                                       *)
(***************************************************************************)
Edges == {"e1", "e2"}

\* values of the from and to properties and of a drag ratio, in tenths
FromValues == {0, 6}
ToValues == {6, 8, 10}
DragRatios == {0, 5, 6, 8, 10, 11}
\* BottomEdge::commitPoint of the two BottomEdges
CommitPoints == [e \in Edges |-> IF e = "e1" THEN 10 ELSE 6]

InvalidUrl == "InvalidUrl"
RangeUrl == "rangeUrl"
RangeComponent == "rangeComponent"

\* QUrl::isValid
isValid(url) == url # InvalidUrl

\* A property of a BottomEdge holds a value, which a binding may drive.
Property(binding, value) == [binding |-> binding, value |-> value]

\* what the BottomEdges' own documents give their content properties
OwnContent == [e \in Edges |->
    IF e = "e1" THEN Property(NULL, "e1Url")
    ELSE Property("e2ContentBinding", "e2Url")]
OwnContentComponent == [e \in Edges |->
    IF e = "e1" THEN Property("e1ComponentBinding", "e1Component")
    ELSE Property(NULL, "e2Component")]

\* PropertyChange: remembers the property of `object` it is created for and
\* what the property held when it was overridden; deleting it writes that back.
PropertyChange(object, saved) ==
    [null |-> FALSE, object |-> object, saved |-> saved]

\* a PropertyChange pointer that is Q_NULLPTR
NoPropertyChange ==
    [null |-> TRUE, object |-> NULL, saved |-> Property(NULL, NULL)]

\* PropertyChange::setBinding / PropertyChange::setValue on a live property
Override(binding, value) == Property(binding, value)

\* the record of the last operation: its name, its argument, the calls and
\* signals it issued in order, and its return value
Op(name, arg, effects, ret) ==
    [op |-> name, arg |-> arg, effects |-> effects, ret |-> ret]

\* UCBottomEdgeRange::UCBottomEdgeRange(parent)
InitRange ==
    /\ m_bottomEdge \in Edges \cup {NULL}
    /\ m_url = InvalidUrl
    /\ m_component = NULL
    /\ m_urlBackup = NoPropertyChange
    /\ m_componentBackup = NoPropertyChange
    /\ m_from = 0
    /\ m_to = -1
    /\ m_enabled = TRUE
    /\ m_commitToTop = FALSE
    /\ urlBinding = FALSE
    /\ componentBinding = FALSE
    /\ edgeContent = OwnContent
    /\ edgeContentComponent = OwnContentComponent
    /\ commitPoint = CommitPoints
    /\ rangeOp = Op("constructed", NULL, <<>>, NULL)

\* attachToBottomEdge adjusting to whatever it holds
attachToBottomEdge_Always(bottomEdge) ==
    /\ m_bottomEdge' = bottomEdge
    /\ m_to' = commitPoint[bottomEdge]
    /\ rangeOp' = Op("attachToBottomEdge", bottomEdge, <<"toChanged">>, NULL)
    /\ UNCHANGED <<m_url, m_component, m_urlBackup, m_componentBackup, m_from,
                   m_enabled, m_commitToTop, urlBinding, componentBinding,
                   edgeContent, edgeContentComponent, commitPoint>>

attachToBottomEdge(bottomEdge) ==
    /\ m_bottomEdge' = bottomEdge
    /\ IF m_to <= 0
       THEN /\ m_to' = commitPoint[bottomEdge]
            /\ rangeOp' = Op("attachToBottomEdge", bottomEdge, <<"toChanged">>, NULL)
       ELSE /\ m_to' = m_to
            /\ rangeOp' = Op("attachToBottomEdge", bottomEdge, <<>>, NULL)
    /\ UNCHANGED <<m_url, m_component, m_urlBackup, m_componentBackup, m_from,
                   m_enabled, m_commitToTop, urlBinding, componentBinding,
                   edgeContent, edgeContentComponent, commitPoint>>

\* onDragEnded deciding on to alone, without commitToTop
DragEndedCalls_ToOnly ==
    IF m_bottomEdge = NULL THEN <<>>
    ELSE IF m_to = commitPoint[m_bottomEdge]
         THEN << <<"commit">> >>
         ELSE << <<"positionPanel", m_to>> >>

\* the calls onDragEnded makes into the BottomEdge
DragEndedCalls ==
    IF m_bottomEdge = NULL THEN <<>>
    ELSE IF m_to = commitPoint[m_bottomEdge] \/ m_commitToTop
         THEN << <<"commit">> >>
         ELSE << <<"positionPanel", m_to>> >>

\* the dragEnded signal is connected directly to onDragEnded
onDragEnded ==
    /\ rangeOp' = Op("onDragEnded", NULL, DragEndedCalls, NULL)
    /\ UNCHANGED <<m_bottomEdge, m_url, m_component, m_urlBackup,
                   m_componentBackup, m_from, m_to, m_enabled, m_commitToTop,
                   urlBinding, componentBinding, edgeContent,
                   edgeContentComponent, commitPoint>>

\* the membership test with an exclusive upper bound
InSection_Exclusive(dragRatio) ==
    m_enabled /\ dragRatio >= m_from /\ dragRatio < m_to

InSection(dragRatio) == m_enabled /\ dragRatio >= m_from /\ dragRatio <= m_to

dragInSection(dragRatio) ==
    /\ rangeOp' = Op("dragInSection", dragRatio, <<>>, InSection(dragRatio))
    /\ UNCHANGED <<m_bottomEdge, m_url, m_component, m_urlBackup,
                   m_componentBackup, m_from, m_to, m_enabled, m_commitToTop,
                   urlBinding, componentBinding, edgeContent,
                   edgeContentComponent, commitPoint>>

\* the property of `edges` that a PropertyChange created for m_bottomEdge
\* overrides with the range's binding or value
Overridden(edgeProperty, hasBinding, bindingName, value) ==
    IF m_bottomEdge = NULL THEN edgeProperty
    ELSE [edgeProperty EXCEPT ![m_bottomEdge] =
             IF hasBinding THEN Override(bindingName, value)
             ELSE Override(NULL, value)]

\* what the new PropertyChange remembers
Backup(edgeProperty) ==
    IF m_bottomEdge = NULL THEN PropertyChange(NULL, Property(NULL, NULL))
    ELSE PropertyChange(m_bottomEdge, edgeProperty[m_bottomEdge])

enterSection ==
    /\ IF isValid(m_url)
       THEN /\ m_urlBackup' = Backup(edgeContent)
            /\ edgeContent' = Overridden(edgeContent, urlBinding,
                                         "rangeContentBinding", m_url)
       ELSE UNCHANGED <<m_urlBackup, edgeContent>>
    /\ IF m_component # NULL
       THEN /\ m_componentBackup' = Backup(edgeContentComponent)
            /\ edgeContentComponent' =
                   Overridden(edgeContentComponent, componentBinding,
                              "rangeComponentBinding", m_component)
       ELSE UNCHANGED <<m_componentBackup, edgeContentComponent>>
    /\ rangeOp' = Op("enterSection", NULL,
                     <<"entered">>
                     \o (IF isValid(m_url) THEN <<"override content">> ELSE <<>>)
                     \o (IF m_component # NULL
                         THEN <<"override contentComponent">> ELSE <<>>),
                     NULL)
    /\ UNCHANGED <<m_bottomEdge, m_url, m_component, m_from, m_to, m_enabled,
                   m_commitToTop, urlBinding, componentBinding, commitPoint>>

\* ~PropertyChange: the property gets back what the PropertyChange remembers
Restored(edgeProperty, change) ==
    IF change.null \/ change.object = NULL THEN edgeProperty
    ELSE [edgeProperty EXCEPT ![change.object] = change.saved]

exitSection ==
    /\ edgeContentComponent' = Restored(edgeContentComponent, m_componentBackup)
    /\ m_componentBackup' = NoPropertyChange
    /\ edgeContent' = Restored(edgeContent, m_urlBackup)
    /\ m_urlBackup' = NoPropertyChange
    /\ rangeOp' = Op("exitSection", NULL,
                     (IF ~m_componentBackup.null
                      THEN <<"restore contentComponent">> ELSE <<>>)
                     \o (IF ~m_urlBackup.null
                         THEN <<"restore content">> ELSE <<>>)
                     \o <<"exited">>,
                     NULL)
    /\ UNCHANGED <<m_bottomEdge, m_url, m_component, m_from, m_to, m_enabled,
                   m_commitToTop, urlBinding, componentBinding, commitPoint>>

\* Writes of the range's properties by its client.  The documentation of from
\* and to states constraints on their values; nothing in the range checks
\* them, so a write stores the value it is given.
setFrom(value) ==
    /\ m_from' = value
    /\ rangeOp' = Op("set", NULL, <<>>, NULL)
    /\ UNCHANGED <<m_bottomEdge, m_url, m_component, m_urlBackup,
                   m_componentBackup, m_to, m_enabled, m_commitToTop,
                   urlBinding, componentBinding, edgeContent,
                   edgeContentComponent, commitPoint>>

setTo(value) ==
    /\ m_to' = value
    /\ rangeOp' = Op("set", NULL, <<>>, NULL)
    /\ UNCHANGED <<m_bottomEdge, m_url, m_component, m_urlBackup,
                   m_componentBackup, m_from, m_enabled, m_commitToTop,
                   urlBinding, componentBinding, edgeContent,
                   edgeContentComponent, commitPoint>>

setEnabled(value) ==
    /\ m_enabled' = value
    /\ rangeOp' = Op("set", NULL, <<>>, NULL)
    /\ UNCHANGED <<m_bottomEdge, m_url, m_component, m_urlBackup,
                   m_componentBackup, m_from, m_to, m_commitToTop,
                   urlBinding, componentBinding, edgeContent,
                   edgeContentComponent, commitPoint>>

setCommitToTop(value) ==
    /\ m_commitToTop' = value
    /\ rangeOp' = Op("set", NULL, <<>>, NULL)
    /\ UNCHANGED <<m_bottomEdge, m_url, m_component, m_urlBackup,
                   m_componentBackup, m_from, m_to, m_enabled,
                   urlBinding, componentBinding, edgeContent,
                   edgeContentComponent, commitPoint>>

\* content is given a url, as a plain value or through a binding
setContent(url, bound) ==
    /\ m_url' = url
    /\ urlBinding' = bound
    /\ rangeOp' = Op("set", NULL, <<>>, NULL)
    /\ UNCHANGED <<m_bottomEdge, m_component, m_urlBackup,
                   m_componentBackup, m_from, m_to, m_enabled, m_commitToTop,
                   componentBinding, edgeContent,
                   edgeContentComponent, commitPoint>>

setContentComponent(component, bound) ==
    /\ m_component' = component
    /\ componentBinding' = bound
    /\ rangeOp' = Op("set", NULL, <<>>, NULL)
    /\ UNCHANGED <<m_bottomEdge, m_url, m_urlBackup,
                   m_componentBackup, m_from, m_to, m_enabled, m_commitToTop,
                   urlBinding, edgeContent,
                   edgeContentComponent, commitPoint>>

\* the range as a section of the drag: its interval, its flags, the drag
NextRange ==
    \/ \E bottomEdge \in Edges : attachToBottomEdge(bottomEdge)
       /\ UNCHANGED <<argsVars, themeVars>>
    \/ onDragEnded
       /\ UNCHANGED <<argsVars, themeVars>>
    \/ \E dragRatio \in DragRatios : dragInSection(dragRatio)
       /\ UNCHANGED <<argsVars, themeVars>>
    \/ \E value \in FromValues : setFrom(value)
       /\ UNCHANGED <<argsVars, themeVars>>
    \/ \E value \in ToValues : setTo(value)
       /\ UNCHANGED <<argsVars, themeVars>>
    \/ \E value \in BOOLEAN : setEnabled(value)
       /\ UNCHANGED <<argsVars, themeVars>>
    \/ \E value \in BOOLEAN : setCommitToTop(value)
       /\ UNCHANGED <<argsVars, themeVars>>

\* the range as a content override: entering and leaving the section
NextSection ==
    \/ \E bottomEdge \in Edges : attachToBottomEdge(bottomEdge)
       /\ UNCHANGED <<argsVars, themeVars>>
    \/ enterSection
       /\ UNCHANGED <<argsVars, themeVars>>
    \/ exitSection
       /\ UNCHANGED <<argsVars, themeVars>>
    \/ \E bound \in BOOLEAN : setContent(RangeUrl, bound)
       /\ UNCHANGED <<argsVars, themeVars>>
    \/ setContent(InvalidUrl, FALSE)
       /\ UNCHANGED <<argsVars, themeVars>>
    \/ \E bound \in BOOLEAN : setContentComponent(RangeComponent, bound)
       /\ UNCHANGED <<argsVars, themeVars>>
    \/ setContentComponent(NULL, FALSE)
       /\ UNCHANGED <<argsVars, themeVars>>

(***************************************************************************)
(* Properties of UCBottomEdgeRange                                         *)
(***************************************************************************)

\* C1: once exitSection has returned, the content and contentComponent of the
\* owning BottomEdge hold again what the BottomEdge's own document gives
\* them: every override applied by enterSection has been taken back.
C1_OverridesRestored ==
    (rangeOp.op = "exitSection" /\ m_bottomEdge # NULL) =>
        /\ edgeContent[m_bottomEdge] = OwnContent[m_bottomEdge]
        /\ edgeContentComponent[m_bottomEdge] = OwnContentComponent[m_bottomEdge]

\* C6: a drag that ends in a range without BottomEdge calls nothing; with a
\* BottomEdge it makes exactly one call, commit() if and only if to equals
\* the commitPoint or commitToTop is set, and positionPanel(to) otherwise.
C6_DragEndedCommitsOrPositions ==
    rangeOp.op = "onDragEnded" =>
        IF m_bottomEdge = NULL THEN rangeOp.effects = <<>>
        ELSE /\ Len(rangeOp.effects) = 1
             /\ IF m_to = commitPoint[m_bottomEdge] \/ m_commitToTop
                THEN rangeOp.effects[1] = <<"commit">>
                ELSE rangeOp.effects[1] = <<"positionPanel", m_to>>

C6_Witness ==
    /\ rangeOp.op = "onDragEnded"
    /\ m_bottomEdge # NULL
    /\ m_commitToTop
    /\ m_to # commitPoint[m_bottomEdge]
    /\ rangeOp.effects = << <<"commit">> >>

\* C7: dragInSection(ratio) is true exactly when the range is enabled and
\* from <= ratio <= to, both bounds included; a disabled range answers false.
C7_DragInSection ==
    rangeOp.op = "dragInSection" =>
        /\ rangeOp.ret <=>
               (m_enabled /\ m_from <= rangeOp.arg /\ rangeOp.arg <= m_to)
        /\ ~m_enabled => rangeOp.ret = FALSE

C7_Witness ==
    /\ rangeOp.op = "dragInSection"
    /\ rangeOp.arg = m_to
    /\ m_from < m_to
    /\ rangeOp.ret = TRUE

\* C8: in every reachable state, from construction on, 0 <= from < to, and
\* to is at most the commitPoint of the BottomEdge the range belongs to.
C8_IntervalInvariant ==
    /\ 0 <= m_from
    /\ m_from < m_to
    /\ m_bottomEdge # NULL => m_to <= commitPoint[m_bottomEdge]

\* C11: the enabled property defaults to false: a freshly constructed range
\* is disabled, and no drag ratio is in its section.
C11_EnabledDefaultsFalse ==
    rangeOp.op = "constructed" =>
        /\ m_enabled = FALSE
        /\ \A dragRatio \in DragRatios : ~InSection(dragRatio)

\* C15: attachToBottomEdge adjusts to only if it was not set yet: with
\* to <= 0 before the call, to becomes the commitPoint of the BottomEdge given
\* and toChanged is emitted once; with to > 0, to stays and toChanged is not
\* emitted.  Either way the range belongs to the BottomEdge given, and from,
\* enabled and commitToTop are unchanged.
C15_AttachAdjustsUnsetTo ==
    [][rangeOp'.op = "attachToBottomEdge" =>
           /\ m_bottomEdge' = rangeOp'.arg
           /\ IF m_to <= 0
              THEN /\ m_to' = commitPoint[rangeOp'.arg]
                   /\ rangeOp'.effects = <<"toChanged">>
              ELSE /\ m_to' = m_to
                   /\ rangeOp'.effects = <<>>
           /\ UNCHANGED <<m_from, m_enabled, m_commitToTop>>]_vars

\* a range whose to was set is attached to a BottomEdge with another
\* commitPoint: to, from, enabled and commitToTop are as they were set
C15_Witness ==
    /\ rangeOp.op = "attachToBottomEdge"
    /\ rangeOp.effects = <<>>
    /\ m_bottomEdge = rangeOp.arg
    /\ m_to > 0
    /\ m_to # commitPoint[m_bottomEdge]
    /\ m_from > 0
    /\ ~m_enabled
    /\ m_commitToTop

\* whether the content and contentComponent of the range's BottomEdge hold
\* what the BottomEdge's own document gives them
Unoverridden(content, contentComponent) ==
    m_bottomEdge # NULL =>
        /\ content[m_bottomEdge] = OwnContent[m_bottomEdge]
        /\ contentComponent[m_bottomEdge] = OwnContentComponent[m_bottomEdge]

\* the calls and signals of an operation in which `first` comes before `second`
Precedes(effects, first, second) ==
    \A j, k \in 1..Len(effects) :
        (effects[j] = first /\ effects[k] = second) => j < k

\* C17: signal ordering around overrides: enterSection emits entered before
\* it applies any override, exitSection emits exited after it has removed
\* every override, contentComponent first and content second; so a handler of
\* entered (which runs on the state before the overrides) and a handler of
\* exited (which runs on the state after the restores) observe the
\* BottomEdge's un-overridden content and contentComponent.
C17_SignalsSeeOwnContent ==
    [][/\ rangeOp'.op = "enterSection" =>
              /\ rangeOp'.effects[1] = "entered"
              /\ Precedes(rangeOp'.effects, "override content",
                          "override contentComponent")
              /\ Unoverridden(edgeContent, edgeContentComponent)
       /\ rangeOp'.op = "exitSection" =>
              /\ rangeOp'.effects[Len(rangeOp'.effects)] = "exited"
              /\ Precedes(rangeOp'.effects, "restore contentComponent",
                          "restore content")
              /\ Unoverridden(edgeContent', edgeContentComponent')]_vars

(***************************************************************************)
(* UCItemExtension and UCThemeUpdateEvent: the visual tree and the theme    *)
(* broadcasts                                                              *)
(***************************************************************************)
MaxItems == 4

Items == 1..MaxItems
\* no item: a null QQuickItem* or UCStyledItemBase*
NoItem == 0

\* the items that are instances of UCStyledItemBase
StyledItems == { i \in Items : i % 2 = 0 }

Theme == "theme"

\* //#define ASYNC_BROADCAST: the macro is not defined
ASYNC_BROADCAST == FALSE

\* UCThemeUpdateEvent(UCStyledItemBase *newStyled)
StyledItemEvent(newStyled) ==
    [type |-> "styledItemEventId", ascendantStyled |-> newStyled, theme |-> NULL]

\* UCThemeUpdateEvent(UCTheme *theme)
ThemeEvent(theme) ==
    [type |-> "themeEventId", ascendantStyled |-> NoItem, theme |-> theme]

\* the strict descendants of an item in the visual tree
RECURSIVE Descendants(_)
Descendants(item) ==
    LET children == { childItems[item][k] : k \in 1..Len(childItems[item]) }
    IN children \cup UNION { Descendants(c) : c \in children }

\* QGuiApplication::postEvent queues the event for its receiver
postEvent(receiver, event) ==
    [delivered |-> delivered,
     posted |-> Append(posted, [to |-> receiver, event |-> event])]

\* QGuiApplication::sendEvent hands the event to its receiver at once
sendEvent(receiver, event) ==
    [delivered |-> Append(delivered, [to |-> receiver, event |-> event]),
     posted |-> posted]

\* the broadcast built with ASYNC_BROADCAST defined
Dispatch_Async(receiver, event) == postEvent(receiver, event)

\* the #ifdef ASYNC_BROADCAST / #else of both broadcast functions
Dispatch(receiver, event) ==
    IF ASYNC_BROADCAST THEN postEvent(receiver, event)
    ELSE sendEvent(receiver, event)

\* a call of a broadcast function on the stack: the item whose children it
\* walks and the position of its Q_FOREACH
Frame(item, index) == [item |-> item, index |-> index]

Call(fn, item, ascendantStyled, theme) ==
    [fn |-> fn, item |-> item, ascendantStyled |-> ascendantStyled,
     theme |-> theme]
NoCall == Call(NULL, NoItem, NoItem, NULL)

\* broadcastAscendantUpdate with the test it has commented out
AscendantRecurses_StopAtStyled(child) ==
    Len(childItems[child]) > 0 /\ child \notin StyledItems

\* whether broadcastAscendantUpdate goes on below a child it has served
AscendantRecurses(child) == Len(childItems[child]) > 0

\* broadcastThemeUpdate without the test for a styled child
ThemeRecurses_IntoStyled(child) == Len(childItems[child]) > 0

\* whether broadcastThemeUpdate goes on below a child it has served
ThemeRecurses(child) ==
    Len(childItems[child]) > 0 /\ child \notin StyledItems

InitTheme ==
    /\ parentItem = [i \in Items |-> NoItem]
    /\ childItems = [i \in Items |-> <<>>]
    /\ stack = <<>>
    /\ broadcast = NoCall
    /\ delivered = <<>>
    /\ posted = <<>>

\* the entry into UCThemeUpdateEvent::broadcastAscendantUpdate
broadcastAscendantUpdate(item, ascendantStyled) ==
    /\ stack' = <<Frame(item, 1)>>
    /\ broadcast' = Call("broadcastAscendantUpdate", item, ascendantStyled, NULL)
    /\ delivered' = <<>>
    /\ UNCHANGED posted

handleParentChanged(item, newParent) ==
    broadcastAscendantUpdate(item, NoItem)

\* a sequence without the element x
Without(seq, x) == SelectSeq(seq, LAMBDA y : y # x)

\* UCItemExtension::setParentItem forwards to QQuickItem::setParentItem,
\* which moves the item in the tree and emits parentChanged, to which
\* handleParentChanged is connected
setParentItem(item, newParent) ==
    /\ stack = <<>>
    /\ newParent # parentItem[item]
    /\ newParent # item
    /\ newParent \notin Descendants(item)
    /\ parentItem' = [parentItem EXCEPT ![item] = newParent]
    /\ childItems' =
           [i \in Items |->
               IF i = newParent THEN Append(childItems[i], item)
               ELSE IF i = parentItem[item] THEN Without(childItems[i], item)
               ELSE childItems[i]]
    /\ handleParentChanged(item, newParent)

\* the entry into UCThemeUpdateEvent::broadcastThemeUpdate
broadcastThemeUpdate(item, theme) ==
    /\ stack = <<>>
    /\ stack' = <<Frame(item, 1)>>
    /\ broadcast' = Call("broadcastThemeUpdate", item, NoItem, theme)
    /\ delivered' = <<>>
    /\ UNCHANGED <<parentItem, childItems, posted>>

\* One iteration of the Q_FOREACH of the call on top of the stack: the event
\* goes to the next child and, if the child has children of its own to be
\* served, the function calls itself for the child.
BroadcastStep ==
    /\ stack # <<>>
    /\ LET top == stack[Len(stack)]
           rest == SubSeq(stack, 1, Len(stack) - 1)
       IN /\ top.index <= Len(childItems[top.item])
          /\ UNCHANGED <<parentItem, childItems, broadcast>>
          /\ LET child == childItems[top.item][top.index]
                 event == IF broadcast.fn = "broadcastAscendantUpdate"
                          THEN StyledItemEvent(broadcast.ascendantStyled)
                          ELSE ThemeEvent(broadcast.theme)
                 recurses == IF broadcast.fn = "broadcastAscendantUpdate"
                             THEN AscendantRecurses(child)
                             ELSE ThemeRecurses(child)
                 out == Dispatch(child, event)
             IN /\ delivered' = out.delivered
                /\ posted' = out.posted
                /\ stack' = rest \o <<Frame(top.item, top.index + 1)>>
                                 \o (IF recurses THEN <<Frame(child, 1)>>
                                     ELSE <<>>)

\* the Q_FOREACH of the call on top of the stack is over: the call returns
BroadcastReturn ==
    /\ stack # <<>>
    /\ stack[Len(stack)].index > Len(childItems[stack[Len(stack)].item])
    /\ stack' = SubSeq(stack, 1, Len(stack) - 1)
    /\ UNCHANGED <<parentItem, childItems, broadcast, delivered, posted>>

NextTheme ==
    \/ \E item \in Items, newParent \in Items \cup {NoItem} :
           setParentItem(item, newParent)
       /\ UNCHANGED <<argsVars, rangeVars>>
    \/ \E item \in Items : broadcastThemeUpdate(item, Theme)
       /\ UNCHANGED <<argsVars, rangeVars>>
    \/ BroadcastStep
       /\ UNCHANGED <<argsVars, rangeVars>>
    \/ BroadcastReturn
       /\ UNCHANGED <<argsVars, rangeVars>>

(***************************************************************************)
(* Properties of the theme broadcasts                                      *)
(***************************************************************************)

\* how many events the running (or last) broadcast has delivered to an item
Received(item) ==
    Cardinality({ k \in 1..Len(delivered) : delivered[k].to = item })

\* the place of a child in the child list of its parent
ChildIndex(parent, child) ==
    CHOOSE k \in 1..Len(childItems[parent]) : childItems[parent][k] = child

\* the broadcast handleParentChanged starts: no item gets anything but a
\* styled-item event with a null ascendant, none gets it twice, only strict
\* descendants of the reparented item get it, and when the call has returned
\* each of them has got it
AscendantBroadcastExact ==
    broadcast.fn = "broadcastAscendantUpdate" =>
        /\ \A k \in 1..Len(delivered) :
               delivered[k].event = StyledItemEvent(NoItem)
        /\ \A i \in Items :
               /\ Received(i) <= 1
               /\ Received(i) = 1 => i \in Descendants(broadcast.item)
        /\ stack = <<>> =>
               \A i \in Descendants(broadcast.item) : Received(i) = 1

\* C5: when the parent of an item changes, every strict descendant of the
\* item receives exactly one styled-item event with a null ascendant style,
\* the item itself and all other items receive none, and the broadcast
\* comes to its end.
C5_AscendantBroadcast ==
    /\ []AscendantBroadcastExact
    /\ (stack # <<>>) ~> (stack = <<>>)

C5_Witness ==
    /\ broadcast.fn = "broadcastAscendantUpdate"
    /\ stack = <<>>
    /\ Len(delivered) >= 2
    /\ \E i \in StyledItems :
           /\ parentItem[i] = broadcast.item
           /\ \E g \in Items : parentItem[g] = i /\ Received(g) = 1

\* C10: no event of a broadcast is left waiting: each is delivered inside
\* the call, so that when the call has returned all children of its item
\* have been served; an item below a served item gets its event after that
\* item, and siblings get theirs in child list order.
C10_SynchronousTopDown ==
    /\ posted = <<>>
    /\ (stack = <<>> /\ broadcast.fn # NULL) =>
           \A k \in 1..Len(childItems[broadcast.item]) :
               Received(childItems[broadcast.item][k]) = 1
    /\ \A k \in 1..Len(delivered) :
           LET child == delivered[k].to
               parent == parentItem[child]
           IN /\ parent \in Descendants(broadcast.item) =>
                     \E j \in 1..(k - 1) : delivered[j].to = parent
              /\ \A j \in 1..(k - 1) :
                     parentItem[delivered[j].to] = parent =>
                         ChildIndex(parent, delivered[j].to)
                             < ChildIndex(parent, child)

C10_Witness ==
    /\ broadcast.fn = "broadcastThemeUpdate"
    /\ stack = <<>>
    /\ Len(delivered) = 3
    /\ parentItem[delivered[2].to] = delivered[1].to
    /\ parentItem[delivered[3].to] = broadcast.item

\* the strict descendants of an item that no styled item lies strictly between
ThemeReach(item) ==
    { i \in Descendants(item) :
          \A a \in Descendants(item) :
              i \in Descendants(a) => a \notin StyledItems }

\* C14: broadcastThemeUpdate(item, theme) stops at styled items: an item
\* receives exactly one theme event if it is a strict descendant of item
\* with no styled item strictly between the two, and none otherwise; a styled
\* child receives the event and its descendants do not.
C14_ThemeStopsAtStyled ==
    broadcast.fn = "broadcastThemeUpdate" =>
        /\ \A k \in 1..Len(delivered) :
               delivered[k].event = ThemeEvent(broadcast.theme)
        /\ \A i \in Items :
               /\ Received(i) <= 1
               /\ Received(i) = 1 => i \in ThemeReach(broadcast.item)
        /\ stack = <<>> =>
               \A i \in ThemeReach(broadcast.item) : Received(i) = 1

\* the broadcast has gone below a child that is not styled, has served a
\* styled item there and has returned without serving the styled item's child
C14_Witness ==
    /\ broadcast.fn = "broadcastThemeUpdate"
    /\ stack = <<>>
    /\ \E c \in Items \ StyledItems, s \in StyledItems, g \in Items :
           /\ parentItem[c] = broadcast.item
           /\ parentItem[s] = c
           /\ parentItem[g] = s
           /\ Received(c) = 1
           /\ Received(s) = 1
           /\ Received(g) = 0

\* the other components at rest
ThemeIdle ==
    /\ parentItem = [i \in Items |-> NoItem]
    /\ childItems = [i \in Items |-> <<>>]
    /\ stack = <<>>
    /\ broadcast = NoCall
    /\ delivered = <<>>
    /\ posted = <<>>

ArgsIdle ==
    /\ m_rawArguments = <<BinaryName>>
    /\ m_arguments = <<>>
    /\ m_expectedArguments = EmptyHash
    /\ m_argumentsValues = EmptyHash
    /\ exitCode = NoExit
    /\ warnings = <<>>
    /\ argsOp = "constructed"

RangeIdle ==
    /\ m_bottomEdge = NULL
    /\ m_url = InvalidUrl
    /\ m_component = NULL
    /\ m_urlBackup = NoPropertyChange
    /\ m_componentBackup = NoPropertyChange
    /\ m_from = 0
    /\ m_to = -1
    /\ m_enabled = TRUE
    /\ m_commitToTop = FALSE
    /\ urlBinding = FALSE
    /\ componentBinding = FALSE
    /\ edgeContent = OwnContent
    /\ edgeContentComponent = OwnContentComponent
    /\ commitPoint = CommitPoints
    /\ rangeOp = Op("constructed", NULL, <<>>, NULL)

ArgsInit == InitArgs /\ RangeIdle /\ ThemeIdle
RangeInit == InitRange /\ ArgsIdle /\ ThemeIdle
ThemeInit == InitTheme /\ ArgsIdle /\ RangeIdle

SpecArgs == ArgsInit /\ [][NextArgs]_vars

SpecRange == RangeInit /\ [][NextRange]_vars

SpecSection == RangeInit /\ [][NextSection]_vars

SpecTheme == ThemeInit /\ [][NextTheme]_vars

\* a broadcast is a synchronous call: once entered it runs on until it returns
FairSpecTheme ==
    /\ SpecTheme
    /\ WF_themeVars(BroadcastStep \/ BroadcastReturn)

====
